---- MODULE Spec2Model ----
\* The HTTP-to-stdio bridge of src/main.rs: request handlers that share one
\* MCP child process behind a tokio Mutex, and McpServerProcess::query, the
\* write / flush / read-one-line-with-timeout exchange on the child's pipes.
EXTENDS Integers, Sequences, FiniteSets, TLC

\* ------------------------------------------------------------- bounds
\* Free-running child: total bytes it may put on its stdout.
MaxEmit == 2
\* Capacity of the child's stdin pipe, in bytes (64 KiB on Linux, scaled).
PipeCap == 2
\* Granularity of the clock: seconds that pass in one Tick.
TickSecs == 15
\* Lines the child may write to its stderr.
MaxErr == 1

\* ---------------------------------------------------------- constants
\* Duration::from_secs(30)
TimeoutSecs == 30

\* The concurrent HTTP requests; each calls query once.
Handlers == {1, 2}
\* No handler (an unlocked mutex; a byte nobody asked for).
NoOne == 0
\* The tag of a byte the child wrote to its stderr.
OnStderr == -1

NL == "\n"
SP == " "
\* A byte that is no valid UTF-8 (only the child can produce it: a Rust
\* String never holds one).
BadByte == "0xFF"
\* Characters of request payloads: a visible one, a blank, a line feed.
Chars == {"a", SP, NL}
\* Bytes the free child writes to its stdout: a visible one, a line feed, an
\* invalid one (blanks reach the reader through the echo child).
OutBytes == {"a", NL, BadByte}

\* McpRequest.command values the HTTP layer can hand to query: any String
\* (here: of at most two characters).
Payloads ==
    {<<>>} \cup { <<c>> : c \in Chars } \cup { <<c, d>> : c, d \in Chars }
\* The payloads sent to a free child, which does not look at them: one that
\* fits the pipe and one that does not.
FewPayloads == { <<"a">>, <<SP, "a">> }
\* The payload of the liveness specification.
OnePayload == { <<"a">> }

IoErrors == { "Broken pipe (os error 32)" }

VARIABLES
    child_kind,     \* "echo": answers each line with the same line, in time;
                    \* "free": writes anything at any time, may close pipes
    command,        \* [Handlers -> payload]   McpRequest.command of a request
    pc,             \* [Handlers -> position in handle_mcp_request_shared]
    guard,          \* the handler that holds the MutexGuard, or NoOne
    waiters,        \* handlers suspended in lock().await, oldest first
    written,        \* [Handlers -> bytes its write_all has put on the pipe]
    stdin,          \* bytes in the child's stdin pipe, each with its writer
    stdin_open,     \* the child still has the read end of its stdin
    child_line,     \* bytes of an unfinished line the child has read
    child_reqs,     \* complete request lines the child has read, unanswered
    stdout,         \* bytes the child wrote that read_line has not consumed
                    \* (pipe and BufReader buffer), each with the request
                    \* the child was answering
    stdout_open,    \* the child still has the write end of its stdout
    emitted,        \* bytes the free child has written
    response_line,  \* the buffer of the pending read_line (String at l.155)
    elapsed,        \* seconds since timeout(...) was started at line 154
    response,       \* [Handlers -> outcome of query]
    returned_at,    \* [Handlers -> line of main.rs that made the outcome]
    got,            \* [Handlers -> the bytes its read_line returned, tagged]
    lock_order,     \* handlers in the order they acquired the mutex
    reply_order,    \* handlers in the order their query returned
    boot,           \* position of main / start_mcp_server_from_config
    fatal,          \* the step whose failure ended the startup, or "none"
    did,            \* steps of this run that were carried out with success
    cfg,            \* the config file: is the key there, and its entry
    host_env,       \* std::env::vars() of the bridge process
    clone_dir,      \* the directory at clone_path: is it there, its files
    build_env,      \* the environment the build command was run with
    child_env,      \* the environment the MCP child was spawned with
    stderr,         \* lines the child wrote to stderr, not yet read
    stderr_open,    \* the child still has the write end of its stderr
    monitor,        \* the stderr task: "none", "running" or "finished"
    forwarded       \* lines the stderr task has printed

\* The state of startup and provisioning.
bootvars == << boot, fatal, did, cfg, host_env, clone_dir, build_env, child_env >>
\* The child's error stream and the task that reads it.
errvars == << stderr, stderr_open, monitor, forwarded >>

vars == << child_kind, command, pc, guard, waiters, written, stdin, stdin_open,
           child_line, child_reqs, stdout, stdout_open, emitted, response_line,
           elapsed, response, returned_at, got, lock_order, reply_order,
           boot, fatal, did, cfg, host_env, clone_dir, build_env, child_env,
           stderr, stderr_open, monitor, forwarded >>

\* The state of the handlers, the mutex, the pipes and the child.
qvars == << child_kind, command, pc, guard, waiters, written, stdin, stdin_open,
            child_line, child_reqs, stdout, stdout_open, emitted, response_line,
            elapsed, response, returned_at, got, lock_order, reply_order >>

\* ------------------------------------------------------------ helpers
Min(a, b) == IF a < b THEN a ELSE b

\* A byte on a pipe: the character and the handler it stems from.
Tagged(s, h) == [i \in DOMAIN s |-> [ch |-> s[i], src |-> h]]
Untag(s) == [i \in DOMAIN s |-> s[i].ch]

\* Position of the first line feed of a tagged byte sequence, 0 if none.
FirstNL(s) ==
    IF \E i \in DOMAIN s : s[i].ch = NL
    THEN CHOOSE i \in DOMAIN s :
            s[i].ch = NL /\ \A j \in 1..(i - 1) : s[j].ch # NL
    ELSE 0

\* char::is_whitespace, on the characters of the model.
IsWhitespace(c) == c \in {SP, NL}

RECURSIVE TrimStart(_)
TrimStart(s) ==
    IF s # <<>> /\ IsWhitespace(Head(s)) THEN TrimStart(Tail(s)) ELSE s

RECURSIVE TrimEnd(_)
TrimEnd(s) ==
    IF s # <<>> /\ IsWhitespace(s[Len(s)])
    THEN TrimEnd(SubSeq(s, 1, Len(s) - 1))
    ELSE s

\* str::trim
Trim(s) == TrimEnd(TrimStart(s))

\* (mcp_message.to_string() + "\n").as_bytes()
WireLine(cmd) == cmd \o <<NL>>

\* --------------------------------------------------- outcomes of query
Ok(r)  == [tag |-> "Ok",  result |-> r,    error |-> ""]
Err(m) == [tag |-> "Err", result |-> <<>>, error |-> m]
Pending == [tag |-> "None", result |-> <<>>, error |-> ""]

ErrWrite(e) == "Failed to write to MCP stdin: " \o e
ErrFlush(e) == "Failed to flush MCP stdin: " \o e
ErrRead(e)  == "Failed to read from MCP stdout: " \o e
ErrEof      == "MCP server closed the connection (EOF)."
ErrEmpty    == "MCP server returned an empty line."
\* A timeout reported with the text of the end-of-stream failure.
ErrTimeoutAsEof == "MCP server closed the connection (EOF)."
ErrTimeout  == "MCP server response timeout (30 seconds)"
InvalidUtf8 == "stream did not contain valid UTF-8"

\* The outcome without the empty-line test of line 165.
LineOutcomeNoEmptyTest(buf) ==
    IF buf = <<>> THEN Err(ErrEof)
    ELSE IF \E i \in DOMAIN buf : buf[i].ch = BadByte
         THEN Err(ErrRead(InvalidUtf8))
    ELSE Ok(Trim(Untag(buf)))

\* The outcome with the line returned as read, untrimmed.
LineOutcomeRaw(buf) ==
    IF buf = <<>> THEN Err(ErrEof)
    ELSE IF \E i \in DOMAIN buf : buf[i].ch = BadByte
         THEN Err(ErrRead(InvalidUtf8))
    ELSE IF Trim(Untag(buf)) = <<>> THEN Err(ErrEmpty)
    ELSE Ok(Untag(buf))

\* What lines 156-178 make of the bytes read_line returned (buf: tagged
\* bytes, line feed included when one was read).
LineOutcome(buf) ==
    IF buf = <<>> THEN Err(ErrEof)
    ELSE IF \E i \in DOMAIN buf : buf[i].ch = BadByte
         THEN Err(ErrRead(InvalidUtf8))
    ELSE IF Trim(Untag(buf)) = <<>> THEN Err(ErrEmpty)
    ELSE Ok(Trim(Untag(buf)))

\* The line of main.rs that produces that outcome.
LineReturn(buf) ==
    IF buf = <<>> THEN "159"
    ELSE IF \E i \in DOMAIN buf : buf[i].ch = BadByte THEN "176"
    ELSE IF Trim(Untag(buf)) = <<>> THEN "166"
    ELSE "170"

\* ------------------------------------------------------------ startup
\* Names of environment variables, and the value a variable has in the
\* config's env map and in the environment of the bridge process.
Names == {"API_KEY", "PATH"}
ConfigValue == "from config"
HostValue == "from host"
\* The environments that give some of the names the value v.
Envs(v) == UNION { [S -> {v}] : S \in SUBSET Names }
\* HashMap::new(): no entry at all.
NoEnv == [n \in {} |-> ""]

\* Command::envs and Command::env: an entry put later replaces an earlier
\* entry of the same name.
Overlay(base, over) ==
    [n \in DOMAIN base \cup DOMAIN over |->
        IF n \in DOMAIN over THEN over[n] ELSE base[n]]

\* A process started from a Command gets the environment of its parent with
\* the entries of the Command on top.
Spawned(host, explicit) == Overlay(host, explicit)

\* A build that is given the config's entries and nothing else.
BuildEnvConfigOnly(config_env, host) == config_env

\* The environment of the build command: envs(&config.env), then env(key,
\* value) for every inherited variable (lines 96-101).
BuildEnv(config_env, host) == Spawned(host, Overlay(config_env, host))

\* A launch that puts the config's entries after the inherited ones.
ChildEnvConfigLast(config_env, host) ==
    Spawned(host, Overlay(host, config_env))

\* The environment of the MCP child: envs(&server_config.env), then env(key,
\* value) for every inherited variable (lines 265-271).
ChildEnv(config_env, host) == Spawned(host, Overlay(config_env, host))

\* The config file as start_mcp_server_from_config sees it: whether the
\* server key is in it and, of its entry, whether repository and
\* build_command are given, and the env map.
Configs ==
    [has_key : BOOLEAN, repository : BOOLEAN, build_command : BOOLEAN,
     env : Envs(ConfigValue)]
HostEnvs == Envs(HostValue)

\* Files of the directory at clone_path: what git clone checks out, what the
\* build adds, and one that neither of them makes.
RepoFiles == {"package.json"}
BuildFiles == {"dist/index.js"}
Files == RepoFiles \cup BuildFiles \cup {"stale"}
Absent == [exists |-> FALSE, files |-> {}]
Dirs == {Absent} \cup { [exists |-> TRUE, files |-> F] : F \in SUBSET Files }

\* The bridge after a successful start with a config entry that names no
\* repository: child spawned, stderr task running, listener bound.
Started ==
    /\ boot = "serving"
    /\ fatal = "none"
    /\ did = {"spawn", "bind"}
    /\ cfg = [has_key |-> TRUE, repository |-> FALSE, build_command |-> FALSE,
              env |-> NoEnv]
    /\ host_env = NoEnv
    /\ clone_dir = Absent
    /\ build_env = NoEnv
    /\ child_env = ChildEnv(NoEnv, NoEnv)
    /\ stderr = <<>>
    /\ stderr_open = TRUE
    /\ monitor = "running"
    /\ forwarded = <<>>

\* --------------------------------------------------------------- Init
TypeInit(kinds, inputs) ==
    /\ child_kind \in kinds
    /\ command \in [Handlers -> inputs]
    /\ pc = [h \in Handlers |-> "idle"]
    /\ guard = NoOne
    /\ waiters = <<>>
    /\ written = [h \in Handlers |-> 0]
    /\ stdin = <<>>
    /\ stdin_open = TRUE
    /\ child_line = <<>>
    /\ child_reqs = <<>>
    /\ stdout = <<>>
    /\ stdout_open = TRUE
    /\ emitted = 0
    /\ response_line = <<>>
    /\ elapsed = 0
    /\ response = [h \in Handlers |-> Pending]
    /\ returned_at = [h \in Handlers |-> ""]
    /\ got = [h \in Handlers |-> <<>>]
    /\ lock_order = <<>>
    /\ reply_order = <<>>

Init ==
    /\ Started
    /\ TypeInit({"echo"}, Payloads) \/ TypeInit({"free"}, FewPayloads)

\* ------------------------------------------------------------ the mutex
\* A lock that never makes a caller wait.
LockIsFreeAlways == TRUE

\* tokio::sync::Mutex::lock: the lock is taken at once only when it is free.
LockIsFree == guard = NoOne

\* A handler that ends and leaves the mutex locked.
UnlockKeepsGuard(h, end) ==
    /\ pc' = [pc EXCEPT ![h] = end]
    /\ UNCHANGED << guard, waiters, lock_order >>

\* Dropping the MutexGuard: the lock goes to the oldest waiter, which
\* resumes after line 419.
\* resumes after line 419. The handler h that held it ends in `end`.
Unlock(h, end) ==
    IF waiters # <<>>
    THEN /\ guard' = Head(waiters)
         /\ waiters' = Tail(waiters)
         /\ lock_order' = Append(lock_order, Head(waiters))
         /\ pc' = [pc EXCEPT ![h] = end, ![Head(waiters)] = "write"]
    ELSE /\ guard' = NoOne
         /\ waiters' = waiters
         /\ lock_order' = lock_order
         /\ pc' = [pc EXCEPT ![h] = end]

\* query returns `out` from line `at` and the handler returns its HTTP
\* response: the guard is dropped at the end of handle_mcp_request_shared,
\* and with it the timer of the read.
Return(h, out, at) ==
    /\ response' = [response EXCEPT ![h] = out]
    /\ returned_at' = [returned_at EXCEPT ![h] = at]
    /\ reply_order' = Append(reply_order, h)
    /\ elapsed' = 0
    /\ Unlock(h, "done")

\* ------------------------------------------------------------ handlers
\* A request arrives through the bound listener and the handler reaches
\* lock().await (line 419).
\* Requests are numbered in the order they arrive.
Arrive(h) ==
    /\ boot = "serving"
    /\ pc[h] = "idle"
    /\ \A g \in Handlers : g < h => pc[g] # "idle"
    /\ IF LockIsFree
       THEN /\ guard' = h
            /\ pc' = [pc EXCEPT ![h] = "write"]
            /\ lock_order' = Append(lock_order, h)
            /\ waiters' = waiters
       ELSE /\ pc' = [pc EXCEPT ![h] = "lock"]
            /\ waiters' = Append(waiters, h)
            /\ UNCHANGED << guard, lock_order >>
    /\ UNCHANGED << child_kind, command, written, stdin, stdin_open, child_line,
                    child_reqs, stdout, stdout_open, emitted, response_line,
                    elapsed, response, returned_at, got, reply_order >>
    /\ UNCHANGED << bootvars, errvars >>

\* One poll of write_all (lines 141-144): the pipe takes what fits.
Write(h) ==
    /\ pc[h] = "write"
    /\ stdin_open
    /\ Len(stdin) < PipeCap
    /\ LET msg == WireLine(command[h])
           k   == Min(PipeCap - Len(stdin), Len(msg) - written[h])
           to  == written[h] + k
       IN /\ stdin' = stdin \o Tagged(SubSeq(msg, written[h] + 1, to), h)
          /\ written' = [written EXCEPT ![h] = to]
          /\ pc' = [pc EXCEPT ![h] = IF to = Len(msg) THEN "flush" ELSE "write"]
    /\ UNCHANGED << child_kind, command, guard, waiters, stdin_open, child_line,
                    child_reqs, stdout, stdout_open, emitted, response_line,
                    elapsed, response, returned_at, got, lock_order, reply_order >>
    /\ UNCHANGED << bootvars, errvars >>

\* A failed write that is recorded but does not end the call: the query
\* goes on to read.
WriteFailThenRead(h) ==
    /\ pc[h] = "write"
    /\ ~stdin_open
    /\ \E e \in IoErrors :
          response' = [response EXCEPT ![h] = Err(ErrWrite(e))]
    /\ pc' = [pc EXCEPT ![h] = "read"]
    /\ UNCHANGED << child_kind, command, guard, waiters, written, stdin,
                    stdin_open, child_line, child_reqs, stdout, stdout_open,
                    emitted, response_line, elapsed, returned_at, got,
                    lock_order, reply_order >>
    /\ UNCHANGED << bootvars, errvars >>

\* write_all fails (the child closed its stdin): `?` at line 144 returns.
WriteFail(h) ==
    /\ pc[h] = "write"
    /\ ~stdin_open
    /\ \E e \in IoErrors : Return(h, Err(ErrWrite(e)), "144")
    /\ UNCHANGED << child_kind, command, written, stdin, stdin_open, child_line,
                    child_reqs, stdout, stdout_open, emitted, response_line,
                    got >>
    /\ UNCHANGED << bootvars, errvars >>

\* flush succeeds (lines 146-149); timeout(...) and the String of line 155
\* are created and the read begins.
Flush(h) ==
    /\ pc[h] = "flush"
    /\ pc' = [pc EXCEPT ![h] = "read"]
    /\ elapsed' = 0
    /\ response_line' = <<>>
    /\ UNCHANGED << child_kind, command, guard, waiters, written, stdin,
                    stdin_open, child_line, child_reqs, stdout, stdout_open,
                    emitted, response, returned_at, got, lock_order, reply_order >>
    /\ UNCHANGED << bootvars, errvars >>

\* flush fails: `?` at line 149 returns. A pipe has nothing to flush; the
\* model lets the call fail, or not, once the child has closed its stdin.
FlushFail(h) ==
    /\ pc[h] = "flush"
    /\ ~stdin_open
    /\ \E e \in IoErrors : Return(h, Err(ErrFlush(e)), "149")
    /\ UNCHANGED << child_kind, command, written, stdin, stdin_open, child_line,
                    child_reqs, stdout, stdout_open, emitted, response_line,
                    got >>
    /\ UNCHANGED << bootvars, errvars >>

\* read_line has something to do: bytes to take, or the end of the stream.
ReadReady == stdout # <<>> \/ ~stdout_open

\* One poll of read_line (line 156): it moves the available bytes, up to and
\* including the first line feed, into its buffer; it returns on a line feed
\* or at the end of the stream, and stays pending otherwise.
ReadLine(h) ==
    /\ pc[h] = "read"
    /\ ReadReady
    /\ LET k     == FirstNL(stdout)
           taken == IF k > 0 THEN SubSeq(stdout, 1, k) ELSE stdout
           rest  == IF k > 0 THEN SubSeq(stdout, k + 1, Len(stdout)) ELSE <<>>
           buf   == response_line \o taken
       IN /\ stdout' = rest
          /\ IF k > 0 \/ ~stdout_open
             THEN /\ got' = [got EXCEPT ![h] = buf]
                  /\ response_line' = <<>>
                  /\ Return(h, LineOutcome(buf), LineReturn(buf))
             ELSE /\ response_line' = buf
                  /\ UNCHANGED << got, response, returned_at, pc, guard, waiters,
                                  elapsed, lock_order, reply_order >>
    /\ UNCHANGED << child_kind, command, written, stdin, stdin_open, child_line,
                    child_reqs, stdout_open, emitted >>
    /\ UNCHANGED << bootvars, errvars >>

\* A deadline that has passed as soon as the read starts.
ExpiredAtOnce == elapsed >= 0

\* The deadline of timeout(Duration::from_secs(30), ..) has passed.
Expired == elapsed >= TimeoutSecs

\* A timeout that also discards the output the child has written so far.
TimeoutDrains(h) ==
    /\ pc[h] = "read"
    /\ Expired
    /\ response_line' = <<>>
    /\ stdout' = <<>>
    /\ Return(h, Err(ErrTimeout), "190")
    /\ UNCHANGED << child_kind, command, written, stdin, stdin_open, child_line,
                    child_reqs, stdout_open, emitted, got >>
    /\ UNCHANGED << bootvars, errvars >>

\* The Timeout future resolves to Err(Elapsed) (lines 188-191): the read_line
\* future and its String are dropped.
Timeout(h) ==
    /\ pc[h] = "read"
    /\ Expired
    /\ response_line' = <<>>
    /\ Return(h, Err(ErrTimeout), "190")
    /\ UNCHANGED << child_kind, command, written, stdin, stdin_open, child_line,
                    child_reqs, stdout, stdout_open, emitted, got >>
    /\ UNCHANGED << bootvars, errvars >>

\* Time passes while a query waits for its reply. The runtime polls a ready
\* read before the timer, so time does not pass over a ready read. The echo
\* child answers before the deadline.
Tick ==
    /\ \E h \in Handlers : pc[h] = "read"
    /\ ~Expired
    /\ ~ReadReady
    /\ child_kind = "echo" => elapsed + TickSecs < TimeoutSecs
    /\ elapsed' = elapsed + TickSecs
    /\ UNCHANGED << child_kind, command, pc, guard, waiters, written, stdin,
                    stdin_open, child_line, child_reqs, stdout, stdout_open,
                    emitted, response_line, response, returned_at, got, lock_order, reply_order >>
    /\ UNCHANGED << bootvars, errvars >>

\* The HTTP client goes away and the server drops the handler's future at
\* the await it is suspended in (lines 419, 422): a waiter leaves the queue,
\* the holder's guard is dropped.
Disconnect(h) ==
    /\ pc[h] \in {"lock", "write", "flush", "read"}
    /\ IF pc[h] = "lock"
       THEN /\ waiters' = SelectSeq(waiters, LAMBDA g : g # h)
            /\ pc' = [pc EXCEPT ![h] = "dropped"]
            /\ UNCHANGED << guard, response_line, elapsed, lock_order >>
       ELSE /\ response_line' = <<>>
            /\ elapsed' = 0
            /\ Unlock(h, "dropped")
    /\ UNCHANGED << child_kind, command, written, stdin, stdin_open, child_line,
                    child_reqs, stdout, stdout_open, emitted, response,
                    returned_at, got, reply_order >>
    /\ UNCHANGED << bootvars, errvars >>

\* ------------------------------------------------------------ the child
\* The child reads its stdin: up to and including the next line feed.
ChildRead ==
    /\ stdin_open
    /\ stdin # <<>>
    /\ LET k     == FirstNL(stdin)
           taken == IF k > 0 THEN SubSeq(stdin, 1, k) ELSE stdin
           rest  == IF k > 0 THEN SubSeq(stdin, k + 1, Len(stdin)) ELSE <<>>
       IN /\ stdin' = rest
          /\ IF k > 0
             THEN /\ child_reqs' = Append(child_reqs, child_line \o taken)
                  /\ child_line' = <<>>
             ELSE /\ child_line' = child_line \o taken
                  /\ child_reqs' = child_reqs
    /\ UNCHANGED << child_kind, command, pc, guard, waiters, written, stdin_open,
                    stdout, stdout_open, emitted, response_line, elapsed,
                    response, returned_at, got, lock_order, reply_order >>
    /\ UNCHANGED << bootvars, errvars >>

\* The echo child answers its oldest request line with the same line.
ChildEcho ==
    /\ child_kind = "echo"
    /\ child_reqs # <<>>
    /\ stdout' = stdout \o Head(child_reqs)
    /\ child_reqs' = Tail(child_reqs)
    /\ UNCHANGED << child_kind, command, pc, guard, waiters, written, stdin,
                    stdin_open, child_line, stdout_open, emitted, response_line,
                    elapsed, response, returned_at, got, lock_order, reply_order >>
    /\ UNCHANGED << bootvars, errvars >>

\* The request the free child is answering: the writer of its oldest
\* unanswered line.
Answering ==
    IF child_reqs = <<>> THEN NoOne
    ELSE Head(child_reqs)[Len(Head(child_reqs))].src

\* A child that is started again after its output stream has ended, and
\* writes to a fresh stream.
ChildEmitRespawned(c) ==
    /\ child_kind = "free"
    /\ emitted < MaxEmit
    /\ emitted' = emitted + 1
    /\ stdout_open' = TRUE
    /\ stdout' = Append(stdout, [ch |-> c, src |-> Answering])
    /\ child_reqs' = IF c = NL /\ child_reqs # <<>>
                     THEN Tail(child_reqs) ELSE child_reqs
    /\ UNCHANGED << child_kind, command, pc, guard, waiters, written, stdin,
                    stdin_open, child_line, response_line, elapsed,
                    response, returned_at, got, lock_order, reply_order >>
    /\ UNCHANGED << bootvars, errvars >>

\* The free child writes one byte; a line feed ends its answer.
ChildEmit(c) ==
    /\ child_kind = "free"
    /\ stdout_open
    /\ emitted < MaxEmit
    /\ emitted' = emitted + 1
    /\ stdout' = Append(stdout, [ch |-> c, src |-> Answering])
    /\ child_reqs' = IF c = NL /\ child_reqs # <<>>
                     THEN Tail(child_reqs) ELSE child_reqs
    /\ UNCHANGED << child_kind, command, pc, guard, waiters, written, stdin,
                    stdin_open, child_line, stdout_open, response_line, elapsed,
                    response, returned_at, got, lock_order, reply_order >>
    /\ UNCHANGED << bootvars, errvars >>

\* The free child closes its stdout (or exits).
ChildCloseStdout ==
    /\ child_kind = "free"
    /\ stdout_open
    /\ stdout_open' = FALSE
    /\ UNCHANGED << child_kind, command, pc, guard, waiters, written, stdin,
                    stdin_open, child_line, child_reqs, stdout, emitted,
                    response_line, elapsed, response, returned_at, got, lock_order, reply_order >>
    /\ UNCHANGED << bootvars, errvars >>

\* The free child closes its stdin (or exits): unread bytes are gone.
ChildCloseStdin ==
    /\ child_kind = "free"
    /\ stdin_open
    /\ stdin_open' = FALSE
    /\ stdin' = <<>>
    /\ UNCHANGED << child_kind, command, pc, guard, waiters, written, child_line,
                    child_reqs, stdout, stdout_open, emitted, response_line,
                    elapsed, response, returned_at, got, lock_order, reply_order >>
    /\ UNCHANGED << bootvars, errvars >>

Next ==
    \/ \E h \in Handlers : Arrive(h)
    \/ \E h \in Handlers : Write(h)
    \/ \E h \in Handlers : WriteFail(h)
    \/ \E h \in Handlers : Flush(h)
    \/ \E h \in Handlers : FlushFail(h)
    \/ \E h \in Handlers : ReadLine(h)
    \/ \E h \in Handlers : Timeout(h)
    \/ \E h \in Handlers : Disconnect(h)
    \/ Tick
    \/ ChildRead
    \/ \E c \in OutBytes : ChildEmit(c)
    \/ ChildEcho
    \/ ChildCloseStdout
    \/ ChildCloseStdin

Spec == Init /\ [][Next]_vars

\* The runtime keeps polling a task whose I/O is ready or whose timer has
\* fired, and its clock advances; the echo child keeps answering. Nothing
\* makes the free child read its stdin or write, and nothing makes a client
\* send a request or go away.
Fairness ==
    /\ WF_vars(Tick)
    /\ \A h \in Handlers : WF_vars(Timeout(h)) /\ WF_vars(ReadLine(h))
    /\ \A h \in Handlers : WF_vars(Write(h)) /\ WF_vars(WriteFail(h))
    /\ \A h \in Handlers : WF_vars(Flush(h)) /\ WF_vars(FlushFail(h))
    /\ WF_vars(child_kind = "echo" /\ ChildRead)
    /\ WF_vars(ChildEcho)

LiveInit == Started /\ TypeInit({"echo", "free"}, OnePayload)

LiveSpec == LiveInit /\ [][Next]_vars /\ Fairness

\* ------------------------------------------------------------- startup
\* An error reaches main through `?`; main's Err arm goes on to the router
\* and the listener instead of returning.
FatalGoesOn(reason) == boot' = "bind" /\ fatal' = reason

\* An error reaches main through `?` and main's Err arm returns (lines
\* 487-494): the process ends.
Fatal(reason) == boot' = "exited" /\ fatal' = reason

\* The step went well: on to the next one.
Goes(next) == boot' = next /\ fatal' = fatal

\* Lines 212-245: the config file is read and parsed, the server key is
\* looked up.
ReadConfig ==
    /\ boot = "config"
    /\ \E readable \in BOOLEAN :
          IF ~readable THEN Fatal("config")
          ELSE IF ~cfg.has_key THEN Fatal("key")
          ELSE Goes(IF cfg.repository THEN "provision" ELSE "spawn")
    /\ UNCHANGED << did, cfg, host_env, clone_dir, build_env, child_env >>
    /\ UNCHANGED << qvars, errvars >>

\* A provisioning that fetches into whatever is at the target path.
ProvisionKeepsDir ==
    /\ boot = "provision"
    /\ \E out \in {"ok", "workdir"} :
          IF out = "ok" THEN Goes("clone") ELSE Fatal(out)
    /\ UNCHANGED << did, cfg, host_env, clone_dir, build_env, child_env >>
    /\ UNCHANGED << qvars, errvars >>

\* Lines 249-251 and 58-71: the work directory is created and what is at
\* clone_path is removed. A removal that fails may have removed a part.
Provision ==
    /\ boot = "provision"
    /\ \E out \in {"ok", "workdir"}
                    \cup (IF clone_dir.exists THEN {"remove"} ELSE {}) :
          CASE out = "ok" ->
                  /\ clone_dir' = Absent
                  /\ did' = IF clone_dir.exists THEN did \cup {"remove"} ELSE did
                  /\ Goes("clone")
            [] out = "workdir" ->
                  /\ UNCHANGED << clone_dir, did >>
                  /\ Fatal(out)
            [] out = "remove" ->
                  /\ \E F \in SUBSET clone_dir.files :
                        clone_dir' = [exists |-> TRUE, files |-> F]
                  /\ did' = did
                  /\ Fatal(out)
    /\ UNCHANGED << cfg, host_env, build_env, child_env >>
    /\ UNCHANGED << qvars, errvars >>

\* Lines 74-83: git clone. It succeeds only into a missing or empty
\* directory; a clone that fails may leave a part of the checkout.
GitClone ==
    /\ boot = "clone"
    /\ did' = did \cup {"clone"}
    /\ \E ok \in BOOLEAN :
          IF ok /\ clone_dir.files = {}
          THEN /\ clone_dir' = [exists |-> TRUE, files |-> RepoFiles]
               /\ Goes(IF cfg.build_command THEN "build" ELSE "spawn")
          ELSE /\ \E F \in SUBSET RepoFiles :
                     clone_dir' \in { clone_dir,
                                      [exists |-> TRUE,
                                       files |-> clone_dir.files \cup F] }
               /\ Fatal("clone")
    /\ UNCHANGED << cfg, host_env, build_env, child_env >>
    /\ UNCHANGED << qvars, errvars >>

\* Lines 86-114: the build command runs in the checkout. A build that fails
\* may leave a part of its output.
Build ==
    /\ boot = "build"
    /\ did' = did \cup {"build"}
    /\ build_env' = BuildEnv(cfg.env, host_env)
    /\ \E ok \in BOOLEAN :
          IF ok
          THEN /\ clone_dir' = [clone_dir EXCEPT !.files = @ \cup BuildFiles]
               /\ Goes("spawn")
          ELSE /\ \E F \in SUBSET BuildFiles :
                     clone_dir' = [clone_dir EXCEPT !.files = @ \cup F]
               /\ Fatal("build")
    /\ UNCHANGED << cfg, host_env, child_env >>
    /\ UNCHANGED << qvars, errvars >>

\* Lines 261-286: the command of the child is built and spawned.
SpawnChild ==
    /\ boot = "spawn"
    /\ \E ok \in BOOLEAN :
          IF ok
          THEN /\ child_env' = ChildEnv(cfg.env, host_env)
               /\ did' = did \cup {"spawn"}
               /\ Goes("pipes")
          ELSE /\ UNCHANGED << child_env, did >>
               /\ Fatal("spawn")
    /\ UNCHANGED << cfg, host_env, clone_dir, build_env >>
    /\ UNCHANGED << qvars, errvars >>

\* Lines 288-340: the three pipe handles are taken, the stderr task is
\* spawned and the McpServerProcess is returned to main.
TakePipes ==
    /\ boot = "pipes"
    /\ \E missing \in {"none", "stdin", "stdout", "stderr"} :
          IF missing = "none"
          THEN monitor' = "running" /\ Goes("bind")
          ELSE monitor' = monitor /\ Fatal(missing)
    /\ UNCHANGED << did, cfg, host_env, clone_dir, build_env, child_env >>
    /\ UNCHANGED << qvars, stderr, stderr_open, forwarded >>

\* Lines 497-535: the router is built and the listener bound; axum::serve
\* begins to accept requests. When bind fails main prints and returns.
Bind ==
    /\ boot = "bind"
    /\ \E ok \in BOOLEAN :
          IF ok
          THEN did' = did \cup {"bind"} /\ Goes("serving")
          ELSE did' = did /\ boot' = "exited" /\ fatal' = "bind"
    /\ UNCHANGED << cfg, host_env, clone_dir, build_env, child_env >>
    /\ UNCHANGED << qvars, errvars >>

\* The process has ended, or is stopped, and is started again on the same
\* host: main runs from its first line, with the files the earlier run left.
Restart ==
    /\ boot \in {"exited", "serving"}
    /\ boot' = "config"
    /\ fatal' = "none"
    /\ did' = {}
    /\ build_env' = NoEnv
    /\ child_env' = NoEnv
    /\ monitor' = "none"
    /\ pc' = [h \in Handlers |-> "idle"]
    /\ guard' = NoOne
    /\ waiters' = <<>>
    /\ lock_order' = <<>>
    /\ UNCHANGED << cfg, host_env, clone_dir, stderr, stderr_open, forwarded >>
    /\ UNCHANGED << child_kind, command, written, stdin, stdin_open, child_line,
                    child_reqs, stdout, stdout_open, emitted, response_line,
                    elapsed, response, returned_at, got, reply_order >>

\* The process is started: any config, any environment, anything at
\* clone_path.
BootInit ==
    /\ boot = "config"
    /\ fatal = "none"
    /\ did = {}
    /\ cfg \in Configs
    /\ host_env \in HostEnvs
    /\ clone_dir \in Dirs
    /\ build_env = NoEnv
    /\ child_env = NoEnv
    /\ stderr = <<>>
    /\ stderr_open = TRUE
    /\ monitor = "none"
    /\ forwarded = <<>>
    /\ TypeInit({"echo"}, OnePayload)

\* main from its first line to the requests that reach the handler.
BootNext ==
    \/ ReadConfig
    \/ Provision
    \/ GitClone
    \/ Build
    \/ SpawnChild
    \/ TakePipes
    \/ Bind
    \/ Restart
    \/ \E h \in Handlers : Arrive(h)

BootSpec == BootInit /\ [][BootNext]_vars

\* ----------------------------------------------------- the stderr task
\* The lines the child writes to its stderr: lines of text.
ErrLines == { Tagged(<<"e", NL>>, OnStderr) }

\* The child writes a line to its stderr.
ChildErr(l) ==
    /\ "spawn" \in did
    /\ stderr_open
    /\ Len(stderr) + Len(forwarded) < MaxErr
    /\ stderr' = Append(stderr, l)
    /\ UNCHANGED << stderr_open, monitor, forwarded >>
    /\ UNCHANGED << qvars, bootvars >>

\* The child closes its stderr (or exits).
ChildCloseStderr ==
    /\ "spawn" \in did
    /\ stderr_open
    /\ stderr_open' = FALSE
    /\ UNCHANGED << stderr, monitor, forwarded >>
    /\ UNCHANGED << qvars, bootvars >>

\* A task that puts the line it read on the stream the queries read.
MonitorReadFeedsBack ==
    /\ monitor = "running"
    /\ stderr # <<>>
    /\ stderr' = Tail(stderr)
    /\ forwarded' = Append(forwarded, Head(stderr))
    /\ stdout' = stdout \o Head(stderr)
    /\ monitor' = monitor
    /\ UNCHANGED << child_kind, command, pc, guard, waiters, written, stdin,
                    stdin_open, child_line, child_reqs, stdout_open, emitted,
                    response_line, elapsed, response, returned_at, got,
                    lock_order, reply_order >>
    /\ UNCHANGED << stderr_open, bootvars >>

\* One turn of the loop of the stderr task (lines 307-322): read_line takes
\* a line from the child's stderr; the line is printed and cleared.
MonitorRead ==
    /\ monitor = "running"
    /\ stderr # <<>>
    /\ stderr' = Tail(stderr)
    /\ forwarded' = Append(forwarded, Head(stderr))
    /\ monitor' = monitor
    /\ UNCHANGED << stderr_open, qvars, bootvars >>

\* read_line returns Ok(0) (lines 308-314): the task ends (as it does, at
\* lines 323-329, when the read fails).
MonitorEof ==
    /\ monitor = "running"
    /\ stderr = <<>>
    /\ ~stderr_open
    /\ monitor' = "finished"
    /\ UNCHANGED << stderr, stderr_open, forwarded, qvars, bootvars >>

\* The running bridge, the child's stderr and the stderr task.
MonitorInit == Started /\ TypeInit({"echo", "free"}, OnePayload)

MonitorNext ==
    \/ Next
    \/ \E l \in ErrLines : ChildErr(l)
    \/ ChildCloseStderr
    \/ MonitorRead
    \/ MonitorEof

MonitorSpec == MonitorInit /\ [][MonitorNext]_vars

\* ================================================================ claims
\* Handlers inside McpServerProcess::query (between lock and return).
InQuery == { h \in Handlers : pc[h] \in {"write", "flush", "read"} }

\* C1: at every moment at most one handler holds the process mutex and is
\* inside query, and it is the handler recorded as the holder of the guard.
C1_MutualExclusion ==
    /\ Cardinality(InQuery) <= 1
    /\ \A h \in InQuery : guard = h
    /\ \A i \in DOMAIN waiters : pc[waiters[i]] = "lock" /\ guard # NoOne

\* C1 witness: one handler is inside query while the other one waits.
C1_Witness == \E h, g \in Handlers : pc[h] = "read" /\ pc[g] = "lock"

\* C2: when a query writes its first byte, every other query that has put
\* bytes on the child's stdin has returned (its write completed and its read
\* resolved to a reply, a failure or a timeout).
C2_StrictOrderOnWire ==
    [][\A h \in Handlers :
          (written[h] = 0 /\ written'[h] > 0) =>
              \A g \in Handlers \ {h} : written[g] > 0 => pc[g] = "done"]_vars

\* The line handler h read is the child's answer to h's own request: every
\* byte of it stems from the line h wrote.
OwnReply(h) ==
    /\ got[h] # <<>>
    /\ \A i \in DOMAIN got[h] : got[h][i].src = h

\* C3: with a child that answers every request line with one reply line in
\* time, every caller whose query has returned read the reply to its own
\* request, and the queries return in the order the mutex was acquired.
C3_OwnReplyInLockOrder ==
    child_kind = "echo" =>
        /\ \A h \in Handlers : pc[h] = "done" => OwnReply(h)
        /\ reply_order = SelectSeq(lock_order, LAMBDA h : pc[h] = "done")

\* s is an initial segment of t.
IsPrefix(s, t) == Len(s) <= Len(t) /\ SubSeq(t, 1, Len(s)) = s

\* The step in which handler h's query returns the timeout failure.
TimesOut(h) ==
    pc[h] = "read" /\ pc'[h] = "done" /\ response'[h] = Err(ErrTimeout)

\* C4: a timed-out query takes nothing from the child's output, and while no
\* query is reading, what the child writes only accumulates there; so a
\* reply written after the timeout is what the next query's read_line
\* returns.
C4_StaleReplyStays ==
    [][/\ \A h \in Handlers : TimesOut(h) => stdout' = stdout
       /\ (\A h \in Handlers : pc[h] # "read") => IsPrefix(stdout, stdout')]_vars

\* C4 witness: g's query timed out and h's query then succeeded with the
\* reply to g's request.
C4_Witness ==
    \E h, g \in Handlers :
        /\ h # g
        /\ response[g] = Err(ErrTimeout)
        /\ response[h].tag = "Ok"
        /\ got[h] # <<>>
        /\ \A i \in DOMAIN got[h] : got[h][i].src = g

\* C5: a query that times out discards nothing of the output: the bytes it
\* had received of an unfinished line and the bytes still unread are, in
\* this order, what later reads are given.
C5_TimeoutKeepsBytes ==
    [][\A h \in Handlers :
          TimesOut(h) => response_line' \o stdout' = response_line \o stdout]_vars

\* The outcomes of a failed write and of a failed flush.
IoFailures ==
    { Err(ErrWrite(e)) : e \in IoErrors } \cup { Err(ErrFlush(e)) : e \in IoErrors }

\* C6: the step in which a write or a flush fails ends the call at once with
\* that failure and leaves the child's output stream and the read buffer as
\* they were; that query has read nothing.
C6_FailedWriteReadsNothing ==
    [][\A h \in Handlers :
          (response'[h] \in IoFailures /\ response[h] \notin IoFailures) =>
              /\ pc[h] \in {"write", "flush"}
              /\ pc'[h] = "done"
              /\ got'[h] = <<>>
              /\ stdout' = stdout
              /\ stdout_open' = stdout_open
              /\ response_line' = response_line]_vars

\* C6 witness: one query failed in its write and one in its flush, with
\* output of the child still unread.
C6_Witness ==
    /\ \E h \in Handlers : pc[h] = "done" /\ returned_at[h] = "144"
    /\ \E h \in Handlers : pc[h] = "done" /\ returned_at[h] = "149"
    /\ stdout # <<>>

\* C7: a successful result is never empty and never only whitespace, and a
\* query whose read_line returned a line of nothing but whitespace (a bare
\* line feed included) failed with the empty-line failure.
C7_NoEmptySuccess ==
    \A h \in Handlers :
        /\ response[h].tag = "Ok" =>
              /\ response[h].result # <<>>
              /\ ~IsWhitespace(response[h].result[1])
              /\ ~IsWhitespace(response[h].result[Len(response[h].result)])
        /\ (got[h] # <<>> /\ \A i \in DOMAIN got[h] : IsWhitespace(got[h][i].ch))
              => response[h] = Err(ErrEmpty)

\* C7 witness: a query read a bare line feed and failed with the empty-line
\* failure.
C7_Witness ==
    \E h \in Handlers :
        /\ pc[h] = "done"
        /\ Untag(got[h]) = <<NL>>
        /\ response[h] = Err(ErrEmpty)

\* C8: a query returns the timeout failure only when the 30 seconds have
\* passed; a read that ends with no line feed in the still open stream ends
\* with the timeout failure; and no query stays in its read forever (the
\* mutex admits one reader at a time, so a state with no reader follows).
C8_ReadIsBounded ==
    /\ [][\A h \in Handlers :
             /\ TimesOut(h) => elapsed >= TimeoutSecs
             /\ (pc[h] = "read" /\ pc'[h] = "done"
                    /\ FirstNL(stdout) = 0 /\ stdout_open)
                  => (response'[h] = Err(ErrTimeout) /\ elapsed >= TimeoutSecs)]_vars
    /\ (\E h \in Handlers : pc[h] = "read")
          ~> (\A h \in Handlers : pc[h] # "read")

\* C8 witness: a query came back with the timeout failure while the child
\* had written no line feed at all.
C8_Witness ==
    \E h \in Handlers :
        /\ pc[h] = "done"
        /\ response[h] = Err(ErrTimeout)
        /\ written[h] = Len(WireLine(command[h]))
        /\ emitted = 0
        /\ stdout_open

\* Queries that returned from different places of query carry different
\* outcomes, each place its own.
C9_Outcomes ==
    /\ \A h, g \in Handlers :
          (pc[h] = "done" /\ pc[g] = "done" /\ returned_at[h] # returned_at[g])
              => response[h] # response[g]
    /\ \A h \in Handlers : pc[h] = "done" =>
          /\ returned_at[h] = "144" <=> response[h] \in { Err(ErrWrite(e)) : e \in IoErrors }
          /\ returned_at[h] = "149" <=> response[h] \in { Err(ErrFlush(e)) : e \in IoErrors }
          /\ returned_at[h] = "159" <=> response[h] = Err(ErrEof)
          /\ returned_at[h] = "166" <=> response[h] = Err(ErrEmpty)
          /\ returned_at[h] = "176" <=> response[h] = Err(ErrRead(InvalidUtf8))
          /\ returned_at[h] = "190" <=> response[h] = Err(ErrTimeout)
          /\ returned_at[h] = "170" <=> response[h].tag = "Ok"

\* C9: the failures of query are told apart by their outcome: write, flush
\* and read failure, empty line, EOF and timeout each have their own; and a
\* read that finds the stream closed with no byte received, before the
\* deadline, ends with the EOF failure.
C9_DistinctFailures ==
    /\ []C9_Outcomes
    /\ [][\A h \in Handlers :
             (pc[h] = "read" /\ pc'[h] = "done" /\ ~stdout_open
                /\ stdout = <<>> /\ response_line = <<>> /\ ~Expired)
               => response'[h] = Err(ErrEof)]_vars

\* C9 witness: one query ended with EOF on a stream closed with no bytes and
\* another one with the timeout failure.
C9_Witness ==
    \E h, g \in Handlers :
        /\ response[h] = Err(ErrEof) /\ got[h] = <<>> /\ emitted = 0
        /\ response[g] = Err(ErrTimeout)

\* The payload holds no line feed.
NoNL(cmd) == \A i \in DOMAIN cmd : cmd[i] # NL

\* The query of h went round an echo child: h sent a payload without a line
\* feed and read back the echo of its own line.
RoundTrip(h) ==
    child_kind = "echo" /\ pc[h] = "done" /\ NoNL(command[h]) /\ OwnReply(h)

\* C10 as claimed: the result of a round trip is the payload that was sent
\* (the line without its terminator), character for character.
C10_RoundTripVerbatim ==
    \A h \in Handlers :
        (RoundTrip(h) /\ response[h].tag = "Ok") => response[h].result = command[h]

\* C10 as amended: the result of a round trip is the payload with all
\* leading and trailing whitespace removed, and the round trip of a payload
\* that is empty or all whitespace fails with the empty-line failure.
C10_RoundTripTrimmed ==
    \A h \in Handlers :
        RoundTrip(h) =>
            response[h] = IF \A i \in DOMAIN command[h] : IsWhitespace(command[h][i])
                          THEN Err(ErrEmpty)
                          ELSE Ok(TrimEnd(TrimStart(command[h])))

\* C10 witness: the payload " a" came back as "a".
C10_Witness ==
    \E h \in Handlers :
        /\ RoundTrip(h)
        /\ command[h] = <<SP, "a">>
        /\ response[h] = Ok(<<"a">>)

\* C11: the child is never started again: once a query has returned from the
\* EOF branch, the child's output stream stays closed and empty, and every
\* query that returns after it returns a failure.
C11_NoSuccessAfterEof ==
    /\ (\E h \in Handlers : returned_at[h] = "159") =>
          (~stdout_open /\ stdout = <<>>)
    /\ \A i, j \in DOMAIN reply_order :
          (i < j /\ returned_at[reply_order[i]] = "159")
              => /\ response[reply_order[i]] = Err(ErrEof)
                 /\ response[reply_order[j]].tag = "Err"

\* C11 witness: a query returned EOF, and the query that took the mutex after
\* it wrote its request and returned EOF as well.
C11_Witness ==
    \E h, g \in Handlers :
        /\ reply_order = <<h, g>>
        /\ response[h] = Err(ErrEof)
        /\ written[g] = Len(WireLine(command[g]))
        /\ response[g] = Err(ErrEof)

\* The failures of start_mcp_server_from_config.
StartupFailures ==
    {"config", "key", "workdir", "remove", "clone", "build", "spawn",
     "stdin", "stdout", "stderr"}

\* C12: a failure of the startup (config unreadable or key missing, work
\* directory, removal, clone, build, spawn, a pipe handle not there) ends the
\* process: the listener is not bound and no request reaches a handler; a
\* failed clone has run no build and spawned no child, a failed build has
\* spawned no child, and nothing was cloned or spawned without the key.
C12_StartupFailuresFatal ==
    /\ fatal \in StartupFailures =>
          /\ boot = "exited"
          /\ "bind" \notin did
          /\ \A h \in Handlers : pc[h] = "idle"
    /\ fatal \in {"config", "key"} => did = {}
    /\ fatal \in {"workdir", "remove"} => did = {}
    /\ fatal = "clone" => ("build" \notin did /\ "spawn" \notin did)
    /\ fatal = "build" => "spawn" \notin did
    /\ fatal = "spawn" => "spawn" \notin did
    /\ (\E h \in Handlers : pc[h] # "idle") => (boot = "serving" /\ "bind" \in did)

\* C12 witness: the build failed after a clone that went well; the process
\* has ended.
C12_Witness ==
    /\ fatal = "build"
    /\ boot = "exited"
    /\ clone_dir.exists
    /\ RepoFiles \subseteq clone_dir.files

\* Provisioning has gone through in this run: a repository is configured and
\* startup is past the clone and the build.
Provisioned ==
    cfg.repository /\ boot \in {"spawn", "pipes", "bind", "serving"}

\* What one fetch and build into an empty place produces.
FreshCheckout ==
    [exists |-> TRUE,
     files |-> RepoFiles \cup (IF cfg.build_command THEN BuildFiles ELSE {})]

\* C13: when the fetch starts nothing is at the target path (a directory that
\* was there has been removed with all its files), and after every
\* successful provisioning, whatever was there before and however many runs
\* came before, the directory holds exactly the files of a fresh fetch and
\* build.
C13_ProvisioningClean ==
    /\ boot = "clone" => clone_dir = Absent
    /\ Provisioned => clone_dir = FreshCheckout

\* C13 witness: provisioning went through in a run that found a directory at
\* the target path and removed it; a build is configured.
C13_Witness ==
    /\ Provisioned
    /\ cfg.build_command
    /\ "remove" \in did
    /\ clone_dir = FreshCheckout

\* The child has been spawned in this run, and one name is both in the
\* config's env map and in the environment of the bridge.
Collision(n) ==
    "spawn" \in did /\ n \in DOMAIN cfg.env /\ n \in DOMAIN host_env

\* C14 as claimed: on a collision the child sees the config's value.
C14_ConfigValueWins ==
    \A n \in Names : Collision(n) => child_env[n] = cfg.env[n]

\* C14 as amended: on a collision the child sees the value of the bridge's
\* own environment; a name only the config has keeps the config's value.
C14_HostValueWins ==
    "spawn" \in did =>
        /\ \A n \in Names : Collision(n) => child_env[n] = host_env[n]
        /\ \A n \in DOMAIN cfg.env \ DOMAIN host_env : child_env[n] = cfg.env[n]

\* C14 witness: the child was spawned with API_KEY in both maps and PATH in
\* the config's only.
C14_Witness ==
    /\ Collision("API_KEY")
    /\ "PATH" \in DOMAIN cfg.env
    /\ "PATH" \notin DOMAIN host_env
    /\ child_env["API_KEY"] = HostValue
    /\ child_env["PATH"] = ConfigValue

\* C15: the build command sees every name of the config's env map and every
\* name of the inherited environment, and no other name.
C15_BuildEnvIsUnion ==
    "build" \in did => DOMAIN build_env = DOMAIN cfg.env \cup DOMAIN host_env

\* C15 witness: the build ran with one variable only the config has and one
\* only the bridge's environment has.
C15_Witness ==
    /\ "build" \in did
    /\ DOMAIN cfg.env = {"API_KEY"}
    /\ DOMAIN host_env = {"PATH"}
    /\ DOMAIN build_env = {"API_KEY", "PATH"}

\* A step of the stderr task: it has taken a line or has ended.
MonitorStep == monitor' # monitor \/ forwarded' # forwarded

\* C16: a step of the stderr task takes at most the oldest line from the
\* child's stderr and leaves the child's stdin, the child's stdout with the
\* read buffer, the mutex with its queue and every handler as they were; what
\* the task takes is what the child wrote to stderr; and no byte the child
\* wrote to stderr is on the stream the queries read or in a line a query
\* read.
C16_MonitorOneWay ==
    /\ [][MonitorStep =>
             /\ UNCHANGED << stdin, stdin_open, stdout, stdout_open,
                             response_line, guard, waiters, lock_order, pc,
                             response, got >>
             /\ stderr' = stderr \/ (stderr # <<>> /\ stderr' = Tail(stderr))]_vars
    /\ [](/\ \A i \in DOMAIN stdout : stdout[i].src # OnStderr
          /\ \A h \in Handlers :
                \A i \in DOMAIN got[h] : got[h][i].src # OnStderr
          /\ \A k \in DOMAIN forwarded :
                \A i \in DOMAIN forwarded[k] : forwarded[k][i].src = OnStderr)

\* C16 witness: the task has printed a line of the child's stderr and goes
\* on, and a query has read the reply to its own request.
C16_Witness ==
    \E h \in Handlers :
        /\ forwarded # <<>>
        /\ monitor = "running"
        /\ response[h].tag = "Ok"
        /\ OwnReply(h)

\* The number of line feeds in a sequence of characters.
CountNL(s) == Cardinality({ i \in DOMAIN s : s[i] = NL })

\* C17: what a query has written to the child's stdin when its write is
\* complete holds exactly one line feed, and that is its last byte, whatever
\* the payload.
C17_OneLinePerQuery ==
    \A h \in Handlers :
        (pc[h] # "idle" /\ written[h] = Len(WireLine(command[h]))) =>
            /\ CountNL(WireLine(command[h])) = 1
            /\ WireLine(command[h])[written[h]] = NL

\* C18: the step in which a query returns, with a reply or with any failure,
\* releases the mutex: when a request is waiting, the oldest waiter holds the
\* guard after that step and is at the start of its own query; otherwise
\* the mutex is free. No handler that has returned holds the guard, and no
\* request waits for a free mutex.
C18_ReturnReleasesMutex ==
    /\ [][\A h \in Handlers :
             (pc[h] \in {"write", "flush", "read"} /\ pc'[h] = "done") =>
                 /\ guard = h
                 /\ response'[h].tag \in {"Ok", "Err"}
                 /\ IF waiters # <<>>
                    THEN /\ guard' = Head(waiters)
                         /\ waiters' = Tail(waiters)
                         /\ pc'[Head(waiters)] = "write"
                         /\ written'[Head(waiters)] = 0
                    ELSE guard' = NoOne]_vars
    /\ [](/\ \A h \in Handlers : pc[h] = "done" => guard # h
          /\ guard = NoOne => waiters = <<>>)

\* C18 witness: the first query failed, and the request that took the mutex
\* after it read the reply to its own request.
C18_Witness ==
    \E h, g \in Handlers :
        /\ lock_order = <<h, g>>
        /\ response[h].tag = "Err"
        /\ response[g].tag = "Ok"
        /\ OwnReply(g)

\* C19: every request that waits for the mutex or is inside its query comes
\* to its end: its query returns, or its handler is dropped.
C19_EveryQueryReturns ==
    \A h \in Handlers :
        (pc[h] \in {"lock", "write", "flush", "read"})
            ~> (pc[h] \in {"done", "dropped"})

\* The handler was dropped inside its exchange: its request line, or a part
\* of it, is written and its read has not returned.
Abandoned(g) == pc[g] = "dropped" /\ written[g] > 0

\* C20: the step that drops a handler inside its exchange does not pass the
\* mutex on to a waiting request, and no query reads a line that holds a
\* byte of the child's answer to an abandoned request.
C20_DropKeepsExchangeWhole ==
    /\ [][\A g \in Handlers :
             (pc[g] \in {"write", "flush", "read"} /\ written[g] > 0
                 /\ pc'[g] = "dropped")
               => guard' \in {g, NoOne}]_vars
    /\ [](\A h, g \in Handlers :
             Abandoned(g) => \A i \in DOMAIN got[h] : got[h][i].src # g)

====
